---- MODULE Spec2Model ----
(***************************************************************************)
(* Model of src/src/melody-generator.ts: the seeded random source          *)
(* (xmur3, mulberry32, makePRNG), the rhythm partitioner                   *)
(* (generateMeasureDurations), the pitch walker (nextMidi), the melody     *)
(* assembler (generateMelody), midiToName and beatsToDurationString.       *)
(*                                                                         *)
(* Numbers.  Every duration and time the program computes is a multiple of *)
(* 1/16, which a double holds exactly; the only other magnitudes are       *)
(* EPS = 1e-6 and the beat values handed to beatsToDurationString.  They   *)
(* are held here as integers counting 1/Scale: 1.0 is Scale, EPS is        *)
(* Scale / 10^6, and one 512th of a beat is Scale / 512.                   *)
(* A value returned by rand() is v / 2^32 with v an unsigned 32-bit word,  *)
(* held as the pair <<v \div 2^16, v % 2^16>>.                             *)
(***************************************************************************)
EXTENDS Integers, Sequences, FiniteSets, TLC

VARIABLES
    params,   \* the Params value handed to generateMelody (never assigned after Init)
    run,      \* run[r]: the locals of the r-th invocation of generateMelody
    beats,    \* the argument of a call of beatsToDurationString
    token     \* what that call returned ("" before the call)

vars == <<params, run, beats, token>>

----------------------------------------------------------------------------
(* Bounds of the exploration *)

\* generateMelody is explored for measures in 0 .. MaxMeasures
MaxMeasures == 2

\* Math.random is sampled at the points k / DrawGrid, 0 <= k < DrawGrid
DrawGrid == 5

\* beatsToDurationString is applied to every multiple of 1/512 beat up to MaxBeats512 / 512
MaxBeats512 == 2200

----------------------------------------------------------------------------
(* Fixed-point numbers *)

Scale == 250000 * 256

Abs(x) == IF x < 0 THEN -x ELSE x

\* Math.max and Math.min on two numbers
Max(a, b) == IF a >= b THEN a ELSE b
Min(a, b) == IF a <= b THEN a ELSE b

RECURSIVE SumSeq(_)
\* durations.reduce((a, b) => a + b, 0)
SumSeq(s) == IF s = <<>> THEN 0 ELSE s[1] + SumSeq(Tail(s))

----------------------------------------------------------------------------
(* 32-bit words as <<high 16 bits, low 16 bits>> *)

W16 == 256 * 256

\* bitwise exclusive or, by halves: of two bits, ..., of two 16-bit numbers
Xor1(x, y) == (x + y) % 2
Xor2(x, y) == Xor1(x % 2, y % 2) + 2 * Xor1(x \div 2, y \div 2)
Xor4(x, y) == Xor2(x % 4, y % 4) + 4 * Xor2(x \div 4, y \div 4)
Xor8(x, y) == Xor4(x % 16, y % 16) + 16 * Xor4(x \div 16, y \div 16)
Xor16(x, y) == Xor8(x % 256, y % 256) + 256 * Xor8(x \div 256, y \div 256)

\* bitwise or, by halves
Or1(x, y) == IF x + y > 0 THEN 1 ELSE 0
Or2(x, y) == Or1(x % 2, y % 2) + 2 * Or1(x \div 2, y \div 2)
Or4(x, y) == Or2(x % 4, y % 4) + 4 * Or2(x \div 4, y \div 4)
Or8(x, y) == Or4(x % 16, y % 16) + 16 * Or4(x \div 16, y \div 16)
Or16(x, y) == Or8(x % 256, y % 256) + 256 * Or8(x \div 256, y \div 256)

\* The operations on words are functions: applying a function evaluates its
\* arguments first, as the machine does.

U16 == 0 .. (W16 - 1)

U32 == U16 \X U16

\* a ^ b
Xor32[a \in U32, b \in U32] == <<Xor16(a[1], b[1]), Xor16(a[2], b[2])>>

\* a | b
Or32[a \in U32, b \in U32] == <<Or16(a[1], b[1]), Or16(a[2], b[2])>>

\* (a + b) wrapped to 32 bits: what ToInt32 keeps of the sum
Add32[a \in U32, b \in U32] ==
    LET lo == a[2] + b[2]
    IN  <<(a[1] + b[1] + lo \div W16) % W16, lo % W16>>

\* a >>> k
Shr32[a \in U32, k \in 1 .. 31] ==
    IF k >= 16 THEN <<0, a[1] \div 2^(k - 16)>>
    ELSE <<a[1] \div 2^k,
           (a[2] \div 2^k) + (a[1] % 2^k) * 2^(16 - k)>>

\* a << k, wrapped to 32 bits
Shl32[a \in U32, k \in 1 .. 15] ==
    <<(a[1] % 2^(16 - k)) * 2^k + a[2] \div 2^(16 - k),
      (a[2] % 2^(16 - k)) * 2^k>>

\* Math.imul(a, b): the low 32 bits of the product, from the bytes of a and b
Imul[a \in U32, b \in U32] ==
    LET a0 == a[2] % 256   a1 == a[2] \div 256
        a2 == a[1] % 256   a3 == a[1] \div 256
        b0 == b[2] % 256   b1 == b[2] \div 256
        b2 == b[1] % 256   b3 == b[1] \div 256
        t0 == a0 * b0
        t1 == a0 * b1 + a1 * b0
        t2 == a0 * b2 + a1 * b1 + a2 * b0
        t3 == a0 * b3 + a1 * b2 + a2 * b1 + a3 * b0
        lo == t0 + (t1 % 256) * 256
        hi == (t1 \div 256) + t2 + (t3 % 256) * 256 + lo \div W16
    IN  <<hi % W16, lo % W16>>

\* the word of a number below 2^16
Word(n) == <<0, n>>

----------------------------------------------------------------------------
(* The seeded random source *)

\* the Params.seed of a call made without a seed (undefined): no string
NoSeed == <<-1>>

\* the body of the for loop of xmur3, on the char code c
Xmur3Step[h \in U32, c \in U16] ==
    LET m == Imul[Xor32[h, Word(c)], <<52382, 11601>>]
    IN  Or32[Shl32[m, 13], Shr32[m, 19]]

RECURSIVE Xmur3Mix(_, _)
\* the for loop of xmur3 over the char codes left in str
Xmur3Mix(h, str) ==
    IF str = <<>> THEN h
    ELSE Xmur3Mix(Xmur3Step[h, str[1]], Tail(str))

\* the first call of the function xmur3(str) returns
xmur3(str) ==
    LET h0 == Xmur3Mix(Xor32[<<27145, 58983>>, Word(Len(str))], str)
        h1 == Imul[Xor32[h0, Shr32[h0, 16]], <<34283, 51819>>]
        h2 == Imul[Xor32[h1, Shr32[h1, 13]], <<49842, 44597>>]
    IN  Xor32[h2, Shr32[h2, 16]]

\* one call of the function mulberry32 returns, from its captured a:
\* the new a and the numerator of the value returned
mulberry32(a) ==
    LET a1 == Add32[a, <<27947, 31221>>]
        t1 == Imul[Xor32[a1, Shr32[a1, 15]], Or32[a1, Word(1)]]
        t2 == Xor32[t1, Add32[t1, Imul[Xor32[t1, Shr32[t1, 7]], Or32[t1, Word(61)]]]]
    IN  [a |-> a1, value |-> Xor32[t2, Shr32[t2, 14]]]

\* !seed
SeedIsFalsy(seed) == seed = NoSeed \/ seed = <<>>

\* makePRNG that takes Math.random whatever the seed
makePRNGUnseeded(seed) == [kind |-> "Math.random", a |-> <<0, 0>>]

\* makePRNG(seed): Math.random itself, or a closure over its own a
makePRNG(seed) ==
    IF SeedIsFalsy(seed) THEN [kind |-> "Math.random", a |-> <<0, 0>>]
    ELSE [kind |-> "mulberry32", a |-> xmur3(seed)]

\* Math.random is sampled on a grid.  The draws of the partitioner take every
\* grid point in a melody of at most one measure on a single pitch, and the
\* first and the last grid point elsewhere; the draws of the pitch walker
\* take every grid point.
AllPoints == 0 .. (DrawGrid - 1)

EndPoints == {0, DrawGrid - 1}

RhythmPoints(p) ==
    IF p.measures <= 1 /\ p.lowMidi = p.highMidi THEN AllPoints ELSE EndPoints

PitchPoints(p) == AllPoints

\* the numerators of Math.random() at the grid points: for the point k the
\* least v, a multiple of 2^16, with v / 2^32 >= k / DrawGrid
MathRandom(points) ==
    { <<(k * W16 + DrawGrid - 1) \div DrawGrid, 0>> : k \in points }

\* rand(): the outcomes <<value, rand afterwards>> of one call
Rand(rnd, points) ==
    IF rnd.kind = "mulberry32"
    THEN LET m == mulberry32(rnd.a)
         IN  { <<m.value, [rnd EXCEPT !.a = m.a]>> }
    ELSE { <<v, rnd>> : v \in MathRandom(points) }

\* Math.floor(v / 2^32 * n), 0 < n < 2^15
FloorTimes(v, n) == (v[1] * n + (v[2] * n) \div W16) \div W16

----------------------------------------------------------------------------
(* midiToName and clamp *)

SHARP_NOTE_ORDER ==
    <<"C", "C#", "D", "D#", "E", "F", "F#", "G", "G#", "A", "A#", "B">>

\* the % of JavaScript on an integer and a positive divisor: the sign of the dividend
JsRem(n, d) == IF n >= 0 THEN n % d ELSE -((-n) % d)

\* SHARP_NOTE_ORDER[pc] in a template literal: "undefined" off the array
NoteLetter(pc) ==
    IF pc \in 0 .. (Len(SHARP_NOTE_ORDER) - 1) THEN SHARP_NOTE_ORDER[pc + 1]
    ELSE "undefined"

midiToName(midi) ==
    LET pc == JsRem(midi, 12)
        octave == (midi \div 12) - 1
    IN  NoteLetter(pc) \o ToString(octave)

\* clamp without its upper bound
clampBelowOnly(n, lo, hi) == Max(lo, n)

clamp(n, lo, hi) == Max(lo, Min(hi, n))

----------------------------------------------------------------------------
(* Rhythm generation *)

EPS == Scale \div 1000000

\* a pool that goes on to the thirty-second note
RHYTHM_POOL_32 ==
    <<Scale, Scale \div 2, Scale \div 4, Scale \div 8, Scale \div 16, Scale \div 32>>

RHYTHM_POOL ==
    <<Scale, Scale \div 2, Scale \div 4, Scale \div 8, Scale \div 16>>

\* the loop test with its comparison turned round
LoopTestTurned(used) == used > Scale - EPS

\* the test of the while loop of generateMeasureDurations
LoopTest(used) == used < Scale - EPS

\* the pool unfiltered
CandidatesUnfiltered(remaining) == RHYTHM_POOL

\* pool.filter((v) => v <= remaining + EPS)
Candidates(remaining) ==
    SelectSeq(RHYTHM_POOL, LAMBDA v : v <= remaining + EPS)

\* One turn of the while loop on the draw v: the durations and used after
\* it, and whether the loop was left by the break of the safety net.
PartitionTurn(durations, used, v) ==
    LET remaining == Scale - used
        candidates == Candidates(remaining)
    IN  IF Len(candidates) = 0
        THEN [durations |-> Append(durations, remaining), used |-> used,
              broke |-> TRUE]
        ELSE LET val == candidates[FloorTimes(v, Len(candidates)) + 1]
             IN  [durations |-> Append(durations, val), used |-> used + val,
                  broke |-> FALSE]

\* the lines after the loop: the last duration takes up the difference to 1
\* when that exceeds EPS (an empty array stays empty: its element -1 is no element)
Snap(durations) ==
    LET diff == Scale - SumSeq(durations)
        n == Len(durations)
    IN  IF Abs(diff) > EPS /\ n > 0
        THEN [durations EXCEPT ![n] = @ + diff]
        ELSE durations

----------------------------------------------------------------------------
(* Pitch generation *)

\* rand() < stepProb, stepProb = 0.8: v / 2^32 < 0.8 is v <= 0xCCCCCCCC
BelowStepProb(v) == v[1] < 52428 \/ (v[1] = 52428 /\ v[2] <= 52428)

choices == <<-2, -1, 1, 2>>

leaps == <<-7, -5, 5, 7>>

\* the delta nextMidi picks on its two draws
Delta(v1, v2) ==
    IF BelowStepProb(v1) THEN choices[FloorTimes(v2, Len(choices)) + 1]
    ELSE leaps[FloorTimes(v2, Len(leaps)) + 1]

\* nextMidi reflecting the candidate off the bound it crossed
nextMidiReflected(delta, current, low, high) ==
    LET candidate == current + delta
    IN  IF candidate < low THEN low + (low - candidate)
        ELSE IF candidate > high THEN high - (candidate - high)
        ELSE candidate

\* nextMidi without its draws: the candidate, clamped when out of range
nextMidi(delta, current, low, high) ==
    LET candidate == current + delta
    IN  IF candidate < low \/ candidate > high
        THEN clamp(candidate, low, high)
        ELSE candidate

----------------------------------------------------------------------------
(* Melody generation: generateMelody as a state machine *)

\* The events array is held by its length and its last two elements (tail):
\* events is only ever appended to, so every element is at some time the
\* last one, and every pair of neighbours is at some time the last two.

\* events.slice(-2) after events.push(note)
PushTail(tail, note) ==
    IF Len(tail) < 2 THEN Append(tail, note) ELSE <<tail[2], note>>

\* a measure of three beats
DurationBeatsOfThree(frac) == frac * 3

\* frac * 4: a fraction of a whole note in beats (4/4)
DurationBeats(frac) == frac * 4

\* the cursor advanced by the fraction of a whole note, not by the beats
AdvanceCursorByFraction(tBeats, durationBeats) == tBeats + durationBeats \div 4

\* tBeats += durationBeats
AdvanceCursor(tBeats, durationBeats) == tBeats + durationBeats

\* the locals of generateMelody(p) when it reaches its for loop
EnterGenerateMelody(p) ==
    [rand |-> makePRNG(p.seed),
     pc |-> "bar",
     bar |-> 0,
     durations |-> <<>>,
     used |-> 0,
     it |-> 0,
     currentMidi |-> clamp(60, p.lowMidi, p.highMidi),
     tBeats |-> 0,
     eventsLength |-> 0,
     tail |-> <<>>]

\* for (bar ...; bar < measures; ...): the call of generateMeasureDurations begins
EnterMeasure(r) ==
    /\ run[r].pc = "bar"
    /\ run[r].bar < params.measures
    /\ run' = [run EXCEPT ![r].pc = "partition",
                          ![r].durations = <<>>,
                          ![r].used = 0]
    /\ UNCHANGED <<params, beats, token>>

\* bar < measures fails: return events
Return(r) ==
    /\ run[r].pc = "bar"
    /\ ~(run[r].bar < params.measures)
    /\ run' = [run EXCEPT ![r].pc = "done"]
    /\ UNCHANGED <<params, beats, token>>

\* one turn of the while loop; the break of the safety net goes on to the
\* lines after the loop and the return
Partition(r) ==
    /\ run[r].pc = "partition"
    /\ LoopTest(run[r].used)
    /\ \E o \in Rand(run[r].rand, RhythmPoints(params)) :
          LET t == PartitionTurn(run[r].durations, run[r].used, o[1])
          IN  run' = [run EXCEPT
                        ![r].rand = o[2],
                        ![r].used = t.used,
                        ![r].durations =
                            IF t.broke THEN Snap(t.durations) ELSE t.durations,
                        ![r].pc = IF t.broke THEN "notes" ELSE "partition",
                        ![r].it = IF t.broke THEN 1 ELSE @]
    /\ UNCHANGED <<params, beats, token>>

\* the loop test fails: snap, return the durations, start the for-of loop
LeaveLoop(r) ==
    /\ run[r].pc = "partition"
    /\ ~LoopTest(run[r].used)
    /\ run' = [run EXCEPT ![r].durations = Snap(@),
                          ![r].pc = "notes",
                          ![r].it = 1]
    /\ UNCHANGED <<params, beats, token>>

\* one turn of for (const frac of dursWholeFractions)
PushNote(r) ==
    /\ run[r].pc = "notes"
    /\ run[r].it <= Len(run[r].durations)
    /\ \E o1 \in Rand(run[r].rand, PitchPoints(params)) :
       \E o2 \in Rand(o1[2], PitchPoints(params)) :
          LET midi == nextMidi(Delta(o1[1], o2[1]), run[r].currentMidi,
                               params.lowMidi, params.highMidi)
              durationBeats == DurationBeats(run[r].durations[run[r].it])
              note == [midi |-> midi,
                       name |-> midiToName(midi),
                       startBeats |-> run[r].tBeats,
                       durationBeats |-> durationBeats]
          IN  run' = [run EXCEPT
                        ![r].rand = o2[2],
                        ![r].currentMidi = midi,
                        ![r].tail = PushTail(@, note),
                        ![r].eventsLength = @ + 1,
                        ![r].tBeats = AdvanceCursor(@, durationBeats),
                        ![r].it = @ + 1]
    /\ UNCHANGED <<params, beats, token>>

\* the for-of loop is through: bar++
NextBar(r) ==
    /\ run[r].pc = "notes"
    /\ run[r].it > Len(run[r].durations)
    /\ run' = [run EXCEPT ![r].bar = @ + 1, ![r].pc = "bar"]
    /\ UNCHANGED <<params, beats, token>>

----------------------------------------------------------------------------
(* beatsToDurationString *)

\* the keys of map as numbers, with their tokens
DurationMap ==
    { <<0, "T0">>, <<Scale \div 2, "8">>, <<Scale, "4">>,
      <<3 * (Scale \div 2), "d4">>, <<2 * Scale, "2">>, <<3 * Scale, "d2">>,
      <<4 * Scale, "1">> }

\* Math.floor in the place of Math.round
FloorTicks(x) == x \div (Scale \div 128)

\* Math.round(x * 128) for x >= 0: the nearest integer, a half going up
RoundTicks(x) == (2 * x + Scale \div 128) \div (2 * (Scale \div 128))

beatsToDurationString(b) ==
    IF \E e \in DurationMap : e[1] = b
    THEN (CHOOSE e \in DurationMap : e[1] = b)[2]
    ELSE "T" \o ToString(RoundTicks(b))

\* a call of beatsToDurationString
Convert ==
    /\ token = ""
    /\ token' = beatsToDurationString(beats)
    /\ UNCHANGED <<params, run, beats>>

----------------------------------------------------------------------------
(* Inputs *)

\* "hello" and "a" as char codes
Seeds == {<<104, 101, 108, 108, 111>>, <<97>>}

\* <<lowMidi, highMidi>>: around 60, 60 alone, 60 below, 60 above, negative
Ranges == {<<58, 62>>, <<60, 60>>, <<62, 64>>, <<55, 57>>, <<-3, -1>>}

ParamsOf(measures, seed, range) ==
    [measures |-> measures, seed |-> seed,
     lowMidi |-> range[1], highMidi |-> range[2]]

\* The parameters explored: every measure count, seed and range, except that
\* an unseeded melody of several measures is explored on single-pitch ranges.
ParamChoices ==
    { p \in { ParamsOf(m, s, rg) :
                 m \in 0 .. MaxMeasures, s \in Seeds \cup {NoSeed}, rg \in Ranges } :
        \/ p.seed # NoSeed
        \/ p.measures <= 1
        \/ p.lowMidi = p.highMidi }

\* one invocation, with or without a seed
Init ==
    /\ params \in ParamChoices
    /\ run = <<EnterGenerateMelody(params)>>
    /\ beats = 0
    /\ token = ""

\* two invocations on the same seeded parameters
InitSeeded ==
    /\ params \in { p \in ParamChoices : p.seed \in Seeds }
    /\ run = <<EnterGenerateMelody(params), EnterGenerateMelody(params)>>
    /\ beats = 0
    /\ token = ""

Next ==
    \/ \E r \in DOMAIN run : EnterMeasure(r)
    \/ \E r \in DOMAIN run : Partition(r)
    \/ \E r \in DOMAIN run : LeaveLoop(r)
    \/ \E r \in DOMAIN run : PushNote(r)
    \/ \E r \in DOMAIN run : NextBar(r)
    \/ \E r \in DOMAIN run : Return(r)

Spec == Init /\ [][Next]_vars

SpecSeeded == InitSeeded /\ [][Next]_vars

\* generateMelody is straight-line synchronous code: a step that can be
\* taken is taken.
SpecFair == Init /\ [][Next]_vars /\ WF_vars(Next)

\* the default Params of parseArgs
DefaultParams == ParamsOf(4, NoSeed, <<55, 76>>)

\* the beat values beatsToDurationString is applied to: multiples of 1/512 beat
BeatInputs == { k * (Scale \div 512) : k \in 0 .. MaxBeats512 }

\* beatsToDurationString alone, on one beat value
InitDuration ==
    /\ params = DefaultParams
    /\ run = <<>>
    /\ beats \in BeatInputs
    /\ token = ""

NextDuration == Convert

SpecDuration == InitDuration /\ [][NextDuration]_vars

----------------------------------------------------------------------------
(* Properties *)

\* ClampTo(n): n brought into [lowMidi, highMidi]
ClampTo(n) ==
    IF n < params.lowMidi THEN params.lowMidi
    ELSE IF n > params.highMidi THEN params.highMidi
    ELSE n

Deltas == {-7, -5, -2, -1, 1, 2, 5, 7}

\* C1: measure closure.  The fractions generateMeasureDurations returns sum
\* to exactly 1; the events emitted for the measure so far last 4 times the
\* fractions consumed, so a whole measure lasts exactly 4 beats; the cursor
\* is 4 * m beats when measure m starts and 4 * measures beats at the end.
MeasureClosure ==
    \A r \in DOMAIN run :
        LET R == run[r]
        IN  /\ R.pc = "notes" =>
                /\ SumSeq(R.durations) = Scale
                /\ R.tBeats = 4 * Scale * R.bar
                              + 4 * SumSeq(SubSeq(R.durations, 1, R.it - 1))
            /\ R.pc = "bar" => R.tBeats = 4 * Scale * R.bar
            /\ R.pc = "done" => R.tBeats = 4 * Scale * params.measures

\* the second measure is about to start after a first one of several events
MeasureClosureWitness ==
    \E r \in DOMAIN run :
        /\ run[r].pc = "bar"
        /\ run[r].bar = 1
        /\ params.measures > 1
        /\ run[r].eventsLength > 1

\* C2: range containment.  With lowMidi <= highMidi every emitted pitch lies
\* in [lowMidi, highMidi], and is 60 when lowMidi = highMidi = 60.
RangeContainment ==
    params.lowMidi <= params.highMidi =>
        \A r \in DOMAIN run : \A i \in DOMAIN run[r].tail :
            LET midi == run[r].tail[i].midi
            IN  /\ params.lowMidi <= midi
                /\ midi <= params.highMidi
                /\ (params.lowMidi = 60 /\ params.highMidi = 60) => midi = 60

\* 60 lies below the range, and a note was emitted after one on the upper bound
RangeContainmentWitness ==
    \E r \in DOMAIN run :
        /\ params.lowMidi > 60
        /\ params.lowMidi < params.highMidi
        /\ Len(run[r].tail) = 2
        /\ run[r].tail[1].midi = params.highMidi

\* C3: contiguity.  The first event starts at 0 and every event starts where
\* the one before it ends, within a measure and across measures.
Contiguity ==
    \A r \in DOMAIN run :
        LET R == run[r]
        IN  /\ R.eventsLength \in {1, 2} => R.tail[1].startBeats = 0
            /\ Len(R.tail) = 2 =>
                  R.tail[2].startBeats
                     = R.tail[1].startBeats + R.tail[1].durationBeats

\* the last two events lie on the two sides of the first bar line
ContiguityWitness ==
    \E r \in DOMAIN run :
        /\ Len(run[r].tail) = 2
        /\ run[r].tail[1].startBeats > 0
        /\ run[r].tail[2].startBeats = 4 * Scale

\* C4: determinism.  Two runs on the same non-empty seed and parameters
\* emit the same events position by position and the same number of them.
Determinism ==
    \A r1 \in DOMAIN run : \A r2 \in DOMAIN run :
        /\ run[r1].eventsLength = run[r2].eventsLength =>
              run[r1].tail = run[r2].tail
        /\ (run[r1].pc = "done" /\ run[r2].pc = "done") =>
              run[r1].eventsLength = run[r2].eventsLength

\* both seeded runs are through, with several events over a range of pitches
DeterminismWitness ==
    /\ Len(run) = 2
    /\ \A r \in DOMAIN run :
          /\ run[r].pc = "done"
          /\ run[r].rand.kind = "mulberry32"
          /\ run[r].eventsLength > 3
    /\ params.lowMidi < params.highMidi

\* C5: event count lower bound.  Every measure through has contributed at
\* least one event, so at the end there are at least measures events.
EventCountLowerBound ==
    \A r \in DOMAIN run :
        /\ run[r].pc = "bar" => run[r].eventsLength >= run[r].bar
        /\ run[r].pc = "done" => run[r].eventsLength >= params.measures

\* a melody of whole notes: exactly one event a measure
EventCountLowerBoundWitness ==
    \E r \in DOMAIN run :
        /\ run[r].pc = "done"
        /\ params.measures > 0
        /\ run[r].eventsLength = params.measures

\* C6: every duration is one of 1, 1/2, 1/4, 1/8, 1/16 (every event lasts
\* 4, 2, 1, 0.5 or 0.25 beats), used never exceeds 1, a turn of the loop
\* always finds a candidate (the safety net is not taken) and the snapping
\* after the loop leaves the durations as they are.
PoolDurations ==
    \A r \in DOMAIN run :
        LET R == run[r]
        IN  /\ \A i \in DOMAIN R.durations :
                  /\ R.durations[i] > 0
                  /\ \E d \in {1, 2, 4, 8, 16} : R.durations[i] * d = Scale
            /\ \A i \in DOMAIN R.tail :
                  \E d \in {1, 2, 4, 8, 16} :
                      R.tail[i].durationBeats * d = 4 * Scale
            /\ R.used <= Scale
            /\ (R.pc = "partition" /\ LoopTest(R.used)) =>
                  Len(Candidates(Scale - R.used)) > 0
            /\ (R.pc = "partition" /\ ~LoopTest(R.used)) =>
                  Snap(R.durations) = R.durations

\* the loop is left with a measure of sixteen sixteenth notes
PoolDurationsWitness ==
    \E r \in DOMAIN run :
        /\ run[r].pc = "partition"
        /\ ~LoopTest(run[r].used)
        /\ Len(run[r].durations) = 16

\* C7: beatsToDurationString gives T0, 8, 4, d4, 2, d2, 1 on 0, 0.5, 1, 1.5,
\* 2, 3, 4 beats and, on any other b, T followed by b * 128 rounded (a half
\* going up): T48 on 0.375 and T32 on 0.25.
DurationTokens ==
    token # "" =>
        LET tick == Scale \div 128
            tabled == {0, Scale \div 2, Scale, 3 * (Scale \div 2), 2 * Scale,
                       3 * Scale, 4 * Scale}
        IN  /\ beats = 0 => token = "T0"
            /\ beats = Scale \div 2 => token = "8"
            /\ beats = Scale => token = "4"
            /\ beats = 3 * (Scale \div 2) => token = "d4"
            /\ beats = 2 * Scale => token = "2"
            /\ beats = 3 * Scale => token = "d2"
            /\ beats = 4 * Scale => token = "1"
            /\ beats = 3 * (Scale \div 8) => token = "T48"
            /\ beats = Scale \div 4 => token = "T32"
            /\ beats \notin tabled =>
                  \E t \in 0 .. (beats \div tick + 1) :
                      /\ token = "T" \o ToString(t)
                      /\ 2 * t * tick - tick <= 2 * beats
                      /\ 2 * beats < 2 * t * tick + tick

\* 0.375 beats were converted
DurationTokensWitness == beats = 3 * (Scale \div 8) /\ token = "T48"

\* C8: every event is named by the sharp-spelling table at midi mod 12 (the
\* non-negative remainder) followed by the octave floor(midi / 12) - 1.
NamesFollowTable ==
    \A r \in DOMAIN run : \A i \in DOMAIN run[r].tail :
        LET e == run[r].tail[i]
        IN  e.name = SHARP_NOTE_ORDER[(e.midi % 12) + 1]
                     \o ToString((e.midi \div 12) - 1)

\* C9: the partitioning loop makes at most 16 turns, each turn taking at
\* least a sixteenth, so a measure holds at most 16 events and the melody at
\* most 16 * measures; and every run of generateMelody reaches its return.
LoopBound ==
    \A r \in DOMAIN run :
        LET R == run[r]
        IN  /\ Len(R.durations) <= 16
            /\ R.pc = "partition" => 16 * R.used >= Len(R.durations) * Scale
            /\ R.eventsLength <= 16 * params.measures

Returned == \A r \in DOMAIN run : run[r].pc = "done"

BoundedLoop == []LoopBound /\ <>Returned

\* a melody of sixteenth notes alone is through
BoundedLoopWitness ==
    \E r \in DOMAIN run :
        /\ run[r].pc = "done"
        /\ params.measures > 0
        /\ run[r].eventsLength = 16 * params.measures

====
